---- MODULE Spec2Model ----
(***************************************************************************)
(* Model of coc-pyright's ruff output adapter (features/linters/ruff.ts)   *)
(* and of its Python settings / interpreter resolver (configSettings.ts).  *)
(*                                                                         *)
(* Encoding of JavaScript values:                                          *)
(*  - a string that is a path is the sequence of its segments:             *)
(*    "/env/bin/python" is <<"/", "env", "bin", "python">>, "python" is    *)
(*    <<"python">>, "~/py" is <<"~", "py">> and '' is <<>>;                *)
(*  - `undefined` (no interpreter from a probe) is Undefined;              *)
(*  - the text handed to parseMessages is the sequence of its JSON tokens. *)
(***************************************************************************)
EXTENDS Integers, Sequences, FiniteSets, TLC

VARIABLES
  output,     \* ruff.ts: the raw text given to parseMessages (JSON tokens)
  promise,    \* ruff.ts: the promise parseMessages returns
  channel,    \* ruff.ts: lines appended to this.outputChannel
  platform,   \* process.platform
  procEnv,    \* process.env: VIRTUAL_ENV, CONDA_PREFIX, PYENV_VERSION
  files,      \* the paths that exist on the file system
  host,       \* what the external commands and reads answer (pipenv, poetry, which, python)
  config,     \* the host's python.pythonPath setting, after variable substitution
  workspaceFolder,  \* workspace.workspaceFolders[0].name, or NoFolder
  pythonSettings,   \* PythonSettings.pythonSettings: workspace-folder key -> instance
  instances,        \* every PythonSettings object constructed so far
  listeners,        \* the live onDidChangeConfiguration subscriptions, in order
  lastCall,         \* the last call made on PythonSettings, and what getInstance returned
  lastUpdate        \* what update() did in the last call, and on which object, if it ran

ruffVars == <<output, promise, channel>>

envVars == <<platform, procEnv, files, host>>

settingsVars ==
  <<config, workspaceFolder, pythonSettings, instances, listeners, lastCall, lastUpdate>>

vars == <<output, promise, channel, platform, procEnv, files, host, config,
          workspaceFolder, pythonSettings, instances, listeners, lastCall, lastUpdate>>

(***************************************************************************)
(* Bounds of the model.                                                    *)
(***************************************************************************)
MaxEntries == 2   \* longest well-formed ruff array enumerated
MaxTokens == 4    \* longest arbitrary token sequence enumerated
MaxLines == 2     \* most environments `poetry env list` prints
MaxInstances == 2 \* most PythonSettings objects constructed in one run

(***************************************************************************)
(* ruff.ts                                                                 *)
(***************************************************************************)
COLUMN_OFF_SET == 1

ProviderId == "ruff"

\* IRuffLocation samples: rows are 1-based, columns of a diagnostic 1-based.
Location(r, c) == [row |-> r, column |-> c]

\* IRuffFix samples (the one of the file's header comment, and another).
SampleFixes ==
  { [content |-> "", location |-> Location(3, 0), end_location |-> Location(4, 0)],
    [content |-> "import os", location |-> Location(1, 2), end_location |-> Location(1, 9)] }

\* JSON null
JsNull == [k |-> "null"]

\* IRuffLintMessage: the entries ruff reports.  The "fix" key is absent, null,
\* or an IRuffFix.
EntriesNoFix ==
  { [code |-> c, message |-> "m", filename |-> <<"/", "path", "to", "bug.py">>,
     location |-> l, end_location |-> e] :
       c \in {"F401", "E501"},
       l \in {Location(1, 1), Location(3, 8)},
       e \in {Location(1, 2), Location(4, 19)} }

WithFix(m, f) ==
  [code |-> m.code, message |-> m.message, filename |-> m.filename,
   location |-> m.location, end_location |-> m.end_location, fix |-> f]

RuffEntries ==
  EntriesNoFix \cup { WithFix(m, f) : m \in EntriesNoFix, f \in SampleFixes \cup {JsNull} }

\* JSON tokens of the raw output.
LB == [t |-> "["]
RB == [t |-> "]"]
Comma == [t |-> ","]
NullTok == [t |-> "null"]
EmptyObjTok == [t |-> "{}"]
Garbage == [t |-> "not json"]
ObjTok(m) == [t |-> "object", v |-> m]

\* JavaScript values JSON.parse produces.
JsObject(m) == [k |-> "object", v |-> m]
JsEmptyObject == [k |-> "emptyobject"]
JsArray(items) == [k |-> "array", items |-> items]

ParseFail == [ok |-> FALSE]
ParseOk(v, n) == [ok |-> TRUE, val |-> v, next |-> n]

RECURSIVE ParseValue(_, _), ParseElements(_, _, _)

\* One JSON value starting at token i.
ParseValue(toks, i) ==
  IF i > Len(toks) THEN ParseFail
  ELSE LET tok == toks[i] IN
    CASE tok.t = "null" -> ParseOk(JsNull, i + 1)
      [] tok.t = "{}" -> ParseOk(JsEmptyObject, i + 1)
      [] tok.t = "object" -> ParseOk(JsObject(tok.v), i + 1)
      [] tok.t = "[" ->
           IF i + 1 <= Len(toks) /\ toks[i + 1].t = "]"
             THEN ParseOk(JsArray(<<>>), i + 2)
             ELSE ParseElements(toks, i + 1, <<>>)
      [] OTHER -> ParseFail

\* The elements of an array, after its "[" or a ",", up to its "]".
ParseElements(toks, i, acc) ==
  LET r == ParseValue(toks, i) IN
    IF ~r.ok THEN ParseFail
    ELSE IF r.next > Len(toks) THEN ParseFail
    ELSE IF toks[r.next].t = "," THEN ParseElements(toks, r.next + 1, Append(acc, r.val))
    ELSE IF toks[r.next].t = "]" THEN ParseOk(JsArray(Append(acc, r.val)), r.next + 1)
    ELSE ParseFail

\* JSON.parse: one value and nothing after it, or a SyntaxError.
JSONParse(toks) ==
  LET r == ParseValue(toks, 1) IN
    IF r.ok /\ r.next = Len(toks) + 1 THEN [ok |-> TRUE, val |-> r.val] ELSE ParseFail

RECURSIVE JoinEntries(_)
JoinEntries(es) ==
  IF es = <<>> THEN <<>>
  ELSE IF Len(es) = 1 THEN <<ObjTok(es[1])>>
  ELSE <<ObjTok(es[1]), Comma>> \o JoinEntries(Tail(es))

\* The text of a JSON array of ruff entries, as ruff --format json prints it.
JSONStringify(es) == <<LB>> \o JoinEntries(es) \o <<RB>>

\* Uri.parse(filename).toString()
UriToString(filename) == <<"file://">> \o filename

\* Range.create(startLine, startCharacter, endLine, endCharacter)
RangeCreate(sl, sc, el, ec) ==
  [start |-> [line |-> sl, character |-> sc], end |-> [line |-> el, character |-> ec]]

\* TextEdit.replace(range, newText)
TextEditReplace(range, newText) == [range |-> range, newText |-> newText]

NoEdit == [k |-> "null"]

HasFix(msg) == "fix" \in DOMAIN msg /\ msg.fix # JsNull

\* Mutant of fixToWorkspaceEdit: the rows are not shifted to 0-based.
fixToWorkspaceEditRowsUnshifted(msg) ==
  IF ~HasFix(msg) THEN NoEdit
  ELSE LET fix == msg.fix
           u == UriToString(msg.filename)
           range == RangeCreate(fix.location.row, fix.location.column,
                                fix.end_location.row, fix.end_location.column)
       IN [k |-> "edit", changes |-> [x \in {u} |-> <<TextEditReplace(range, fix.content)>>]]

\* Ruff.fixToWorkspaceEdit(msg.filename, msg.fix)
fixToWorkspaceEdit(msg) ==
  IF ~HasFix(msg) THEN NoEdit
  ELSE LET fix == msg.fix
           u == UriToString(msg.filename)
           range == RangeCreate(fix.location.row - 1, fix.location.column,
                                fix.end_location.row - 1, fix.end_location.column)
       IN [k |-> "edit", changes |-> [x \in {u} |-> <<TextEditReplace(range, fix.content)>>]]

\* Mutant of ToLintMessage: the column offset is applied to the end column too.
ToLintMessageEndShifted(msg) ==
  [line |-> msg.location.row,
   column |-> msg.location.column - COLUMN_OFF_SET,
   endLine |-> msg.end_location.row,
   endColumn |-> msg.end_location.column - COLUMN_OFF_SET,
   code |-> msg.code,
   message |-> msg.message,
   type |-> "",
   severity |-> "Warning",
   tags |-> IF msg.code \in {"F401", "F841"} THEN <<"Unnecessary">> ELSE <<>>,
   provider |-> ProviderId,
   file |-> msg.filename,
   fix |-> fixToWorkspaceEdit(msg)]

\* The callback of JSON.parse(output).map(...)
ToLintMessage(msg) ==
  [line |-> msg.location.row,
   column |-> msg.location.column - COLUMN_OFF_SET,
   endLine |-> msg.end_location.row,
   endColumn |-> msg.end_location.column,
   code |-> msg.code,
   message |-> msg.message,
   type |-> "",
   severity |-> "Warning",
   tags |-> IF msg.code \in {"F401", "F841"} THEN <<"Unnecessary">> ELSE <<>>,
   provider |-> ProviderId,
   file |-> msg.filename,
   fix |-> fixToWorkspaceEdit(msg)]

Resolved(v) == [state |-> "resolved", value |-> v]
Rejected(e) == [state |-> "rejected", error |-> e]
Pending == [state |-> "pending"]

\* What the try block of parseMessages does: the messages, or the error thrown.
TryParse(out) ==
  LET parsed == JSONParse(out) IN
    IF ~parsed.ok THEN [threw |-> TRUE, error |-> "SyntaxError"]
    ELSE IF parsed.val.k # "array" THEN [threw |-> TRUE, error |-> "TypeError"]
    ELSE IF \E i \in 1..Len(parsed.val.items) : parsed.val.items[i].k # "object"
      THEN [threw |-> TRUE, error |-> "TypeError"]
    ELSE [threw |-> FALSE,
          messages |-> [i \in 1..Len(parsed.val.items) |-> ToLintMessage(parsed.val.items[i].v)]]

\* Mutant of parseMessages: no catch block, the error rejects the promise.
parseMessagesNoCatch(out) ==
  LET t == TryParse(out) IN
    IF t.threw
      THEN [promise |-> Rejected(t.error), log |-> <<>>]
      ELSE [promise |-> Resolved(t.messages), log |-> <<>>]

\* Ruff.parseMessages(output): the promise it returns and the lines it logs.
parseMessages(out) ==
  LET t == TryParse(out) IN
    IF t.threw
      THEN [promise |-> Resolved(<<>>), log |-> <<"Linting with ruff failed:", t.error>>]
      ELSE [promise |-> Resolved(t.messages), log |-> <<>>]

\* Inputs: arrays of well-formed entries as ruff prints them, and arbitrary text.
RECURSIVE SeqsUpTo(_, _)
SeqsUpTo(S, n) ==
  IF n = 0 THEN {<<>>}
  ELSE LET shorter == SeqsUpTo(S, n - 1) IN
    shorter \cup { Append(s, x) : s \in {q \in shorter : Len(q) = n - 1}, x \in S }

WellFormedArrays == SeqsUpTo(RuffEntries, MaxEntries)

SampleEntry == CHOOSE m \in RuffEntries : HasFix(m)

TokenAlphabet == {LB, RB, Comma, NullTok, EmptyObjTok, Garbage, ObjTok(SampleEntry)}

RuffOutputs ==
  { JSONStringify(es) : es \in WellFormedArrays } \cup SeqsUpTo(TokenAlphabet, MaxTokens)

(***************************************************************************)
(* configSettings.ts: JavaScript strings and the process environment       *)
(***************************************************************************)
Undefined == [k |-> "undefined"]
Str(s) == [k |-> "string", s |-> s]

\* A value used as a condition: undefined, null and '' are falsy.
Truthy(v) == v.k = "string" /\ v.s # <<>>

\* Text printed by a command or read from a file: words and line breaks.
PathWord(p) == [w |-> "path", p |-> p]
TextWord(x) == [w |-> "text", p |-> <<x>>]
Space == [w |-> " "]
Marker == [w |-> "(Activated)"]
NL == [w |-> "\n"]

IsWhite(word) == word.w \in {" ", "\n"}

RECURSIVE TrimStart(_)
TrimStart(text) ==
  IF text # <<>> /\ IsWhite(Head(text)) THEN TrimStart(Tail(text)) ELSE text

RECURSIVE TrimEnd(_)
TrimEnd(text) ==
  IF text # <<>> /\ IsWhite(text[Len(text)])
    THEN TrimEnd(SubSeq(text, 1, Len(text) - 1)) ELSE text

\* String.prototype.trim()
Trim(text) == TrimEnd(TrimStart(text))

\* String.prototype.split('\n'): always at least one item.
RECURSIVE SplitLines(_, _, _)
SplitLines(text, i, cur) ==
  IF i > Len(text) THEN <<cur>>
  ELSE IF text[i] = NL THEN <<cur>> \o SplitLines(text, i + 1, <<>>)
  ELSE SplitLines(text, i + 1, Append(cur, text[i]))

Split(text) == SplitLines(text, 1, <<>>)

\* String.prototype.includes('(Activated)')
Includes(item, word) == \E i \in 1..Len(item) : item[i] = word

\* String.prototype.replace(/\(Activated\)/, ''): the first occurrence only.
RemoveFirst(item, word) ==
  IF ~Includes(item, word) THEN item
  ELSE LET i == CHOOSE j \in 1..Len(item) :
                  item[j] = word /\ \A h \in 1..(j - 1) : item[h] # word
       IN SubSeq(item, 1, i - 1) \o SubSeq(item, i + 1, Len(item))

\* A text used as a path: the segments its characters spell.
RECURSIVE TextToPath(_)
TextToPath(text) ==
  IF text = <<>> THEN <<>>
  ELSE (IF Head(text).w \in {"path", "text"} THEN Head(text).p ELSE <<Head(text).w>>)
         \o TextToPath(Tail(text))

WorkspaceRoot == <<"/", "ws">>
HomeDir == <<"/", "home", "user">>
VenvDir == <<"/", "env">>
CondaDir == <<"/", "conda">>
PoetryEnvA == <<"/", "cache", "A">>
PoetryEnvB == <<"/", "cache", "B">>
PipenvPython == <<"/", "pipenv", "bin", "python">>
UsrBinPython3 == <<"/", "usr", "bin", "python3">>

\* fs.existsSync(p)
existsSync(p) == p \in files

(***************************************************************************)
(* configSettings.ts: PythonSettings.resolvePythonFromVENV                 *)
(***************************************************************************)
\* What one probe does: it falls to the next probe (done = FALSE), returns a
\* value, or throws.  pyenv is process.env.PYENV_VERSION afterwards and calls
\* the subprocesses and reads it made.
Continue(pyenv) ==
  [done |-> FALSE, threw |-> FALSE, value |-> Undefined, pyenv |-> pyenv, calls |-> <<>>]
Return(v, pyenv, calls) ==
  [done |-> TRUE, threw |-> FALSE, value |-> v, pyenv |-> pyenv, calls |-> calls]
Throw(pyenv, calls) ==
  [done |-> TRUE, threw |-> TRUE, value |-> Undefined, pyenv |-> pyenv, calls |-> calls]

BinSegments(plat) ==
  IF plat = "win32" THEN <<"Scripts", "python.exe">> ELSE <<"bin", "python">>

\* pythonBinFromPath(p)
pythonBinFromPath(p) ==
  LET fullPath == p \o BinSegments(platform) IN
    IF existsSync(fullPath) THEN Str(fullPath) ELSE Undefined

\* virtualenv
VirtualenvProbe(pyenv) ==
  IF procEnv.VIRTUAL_ENV # <<>> /\ existsSync(procEnv.VIRTUAL_ENV \o <<"pyvenv.cfg">>)
    THEN Return(pythonBinFromPath(procEnv.VIRTUAL_ENV), pyenv, <<>>)
    ELSE Continue(pyenv)

\* conda
CondaProbe(pyenv) ==
  IF procEnv.CONDA_PREFIX # <<>>
    THEN Return(pythonBinFromPath(procEnv.CONDA_PREFIX), pyenv, <<>>)
    ELSE Continue(pyenv)

\* fs.readFileSync(p).toString().trim().split('\n')[0]
FirstLineOf(text) == Split(Trim(text))[1]

\* Mutant of PyenvProbe: the probe records the hint and lets the later probes run.
PyenvProbeFallsThrough(root, pyenv) ==
  IF existsSync(root \o <<".python-version">>)
    THEN IF pyenv = <<>>
           THEN IF host.readFileThrows
                  THEN Throw(pyenv, <<"readFile">>)
                  ELSE [Continue(FirstLineOf(host.pythonVersionText)) EXCEPT !.calls = <<"readFile">>]
           ELSE Continue(pyenv)
    ELSE Continue(pyenv)

\* `pyenv local` creates `.python-version`, but not `PYENV_VERSION`
PyenvProbe(root, pyenv) ==
  IF existsSync(root \o <<".python-version">>)
    THEN IF pyenv = <<>>
           THEN IF host.readFileThrows
                  THEN Throw(pyenv, <<"readFile">>)
                  ELSE Return(Undefined, FirstLineOf(host.pythonVersionText), <<"readFile">>)
           ELSE Return(Undefined, pyenv, <<>>)
    ELSE Continue(pyenv)

\* pipenv: spawnSync('pipenv', ['--py']).stdout.trim(); stdout is null when
\* the command cannot be spawned, and .trim() then throws.
PipenvProbe(root, pyenv) ==
  IF existsSync(root \o <<"Pipfile">>)
    THEN IF host.pipenvStdout.k # "string"
           THEN Throw(pyenv, <<"pipenv">>)
           ELSE Return(Str(TextToPath(Trim(host.pipenvStdout.s))), pyenv, <<"pipenv">>)
    ELSE Continue(pyenv)

\* The loop over `poetry env list`: the first item marked (Activated), with
\* the marker removed, else the last item.
RECURSIVE PoetryInfo(_, _, _)
PoetryInfo(items, i, info) ==
  IF i > Len(items) THEN info
  ELSE IF Includes(items[i], Marker) THEN Trim(RemoveFirst(items[i], Marker))
  ELSE PoetryInfo(items, i + 1, items[i])

\* Mutant of PoetrySelect: the loop does not stop at the marked item.
RECURSIVE PoetryInfoNoBreak(_, _, _)
PoetryInfoNoBreak(items, i, info) ==
  IF i > Len(items) THEN info
  ELSE IF Includes(items[i], Marker)
    THEN PoetryInfoNoBreak(items, i + 1, Trim(RemoveFirst(items[i], Marker)))
  ELSE PoetryInfoNoBreak(items, i + 1, items[i])

PoetrySelectNoBreak(stdout) == PoetryInfoNoBreak(Split(Trim(stdout)), 1, <<>>)

\* list = stdout.trim(); for (const item of list.split('\n')) ...
PoetrySelect(stdout) == PoetryInfo(Split(Trim(stdout)), 1, <<>>)

\* poetry
PoetryProbe(root, pyenv) ==
  IF existsSync(root \o <<"poetry.lock">>)
    THEN IF host.poetryStdout.k # "string"
           THEN Throw(pyenv, <<"poetry">>)
           ELSE LET info == PoetrySelect(host.poetryStdout.s) IN
             IF info # <<>>
               THEN Return(pythonBinFromPath(TextToPath(info)), pyenv, <<"poetry">>)
               ELSE [Continue(pyenv) EXCEPT !.calls = <<"poetry">>]
    ELSE Continue(pyenv)

\* fs.readdirSync(root): the names under root, in the directory's order.
DirCandidates == <<".python-version", ".venv", "Pipfile", "poetry.lock">>

IsUnder(root, name, f) ==
  /\ Len(f) > Len(root)
  /\ SubSeq(f, 1, Len(root)) = root
  /\ f[Len(root) + 1] = name

readdirSync(root) ==
  SelectSeq(DirCandidates, LAMBDA name : \E f \in files : IsUnder(root, name, f))

\* virtualenv in the workspace root
LocalVenvProbe(root, pyenv) ==
  IF host.readdirThrows THEN Throw(pyenv, <<"readdir">>)
  ELSE LET names == readdirSync(root)
           hits == { i \in 1..Len(names) : existsSync(root \o <<names[i], "pyvenv.cfg">>) }
       IN IF hits = {} THEN [Continue(pyenv) EXCEPT !.calls = <<"readdir">>]
          ELSE LET first == CHOOSE i \in hits : \A j \in hits : i <= j
               IN Return(pythonBinFromPath(root \o <<names[first]>>), pyenv, <<"readdir">>)

\* Mutant of ProbeOrder: conda is asked before the virtualenv.
ProbeOrderCondaFirst == <<"conda", "virtualenv", "pyenv", "pipenv", "poetry", "local">>

\* The order of the probes in the try block.
ProbeOrder == <<"virtualenv", "conda", "pyenv", "pipenv", "poetry", "local">>

Probe(name, root, pyenv) ==
  CASE name = "virtualenv" -> VirtualenvProbe(pyenv)
    [] name = "conda" -> CondaProbe(pyenv)
    [] name = "pyenv" -> PyenvProbe(root, pyenv)
    [] name = "pipenv" -> PipenvProbe(root, pyenv)
    [] name = "poetry" -> PoetryProbe(root, pyenv)
    [] name = "local" -> LocalVenvProbe(root, pyenv)

\* The probes from the i-th on: the first to return or throw ends the chain;
\* past the last one the function ends and returns undefined.
RECURSIVE ProbesFrom(_, _, _, _)
ProbesFrom(i, root, pyenv, calls) ==
  IF i > Len(ProbeOrder) THEN [Continue(pyenv) EXCEPT !.calls = calls]
  ELSE LET r == Probe(ProbeOrder[i], root, pyenv) IN
    IF r.done THEN [r EXCEPT !.calls = calls \o r.calls]
    ELSE ProbesFrom(i + 1, root, r.pyenv, calls \o r.calls)

\* The body of the try block.
ProbeChain(root, pyenv) == ProbesFrom(1, root, pyenv, <<>>)

\* Mutant of Caught: no try/catch, an exception escapes.
Uncaught(r) ==
  [value |-> r.value, threw |-> r.threw, escaped |-> r.threw,
   pyenv |-> r.pyenv, calls |-> r.calls]

\* try { ... } catch (e) { console.error(e) }: whatever the body threw is
\* logged, and the function then ends and returns undefined.
Caught(r) ==
  [value |-> r.value, threw |-> r.threw, escaped |-> FALSE,
   pyenv |-> r.pyenv, calls |-> r.calls]

\* PythonSettings.resolvePythonFromVENV()
resolvePythonFromVENV(root, pyenv) == Caught(ProbeChain(root, pyenv))

(***************************************************************************)
(* configSettings.ts: getPythonExecutable, getStdLibs, the setters, update *)
(***************************************************************************)
\* untildify(p): a leading ~ becomes the home directory.
untildify(p) == IF p # <<>> /\ p[1] = "~" THEN HomeDir \o Tail(p) ELSE p

\* pythonPath.indexOf(path.sep) === -1
HasNoSep(p) == Len(p) <= 1 /\ p # <<"/">>

\* path.basename(p): '' for '' and for the root.
Basename(p) == IF p = <<>> \/ p = <<"/">> THEN <<>> ELSE <<p[Len(p)]>>

\* path.dirname(p): the root for the root, '.' for a name without a directory.
Dirname(p) ==
  IF p = <<"/">> THEN <<"/">>
  ELSE IF Len(p) <= 1 THEN <<".">>
  ELSE SubSeq(p, 1, Len(p) - 1)

\* which.sync(cmd, { nothrow: true }): the search-path lookup; null when not found.
whichSync(cmd) == IF cmd = <<"python">> THEN host.whichPython ELSE JsNull

\* isValidPythonPath(p): does `p -c print(1234)` print 1234; stdout is null
\* (and startsWith throws, caught) when p cannot be run.
isValidPythonPath(p) == host.pythonRuns

\* Mutant of getPythonExecutable: a path that fails validation is dropped.
getPythonExecutableStrict(pythonPath) ==
  LET p1 == untildify(pythonPath)
      lookup == p1 = <<"python">> \/ HasNoSep(p1) \/ Basename(p1) = Dirname(p1)
      bin == whichSync(p1)
      p2 == IF lookup /\ Truthy(bin) THEN bin.s ELSE p1
  IN [path |-> IF isValidPythonPath(p2) THEN p2 ELSE <<>>,
      calls |-> (IF lookup THEN <<"which">> ELSE <<>>) \o <<"print(1234)">>,
      valid |-> isValidPythonPath(p2)]

\* getPythonExecutable(pythonPath): the path, and the lookups it ran.
getPythonExecutable(pythonPath) ==
  LET p1 == untildify(pythonPath)
      lookup == p1 = <<"python">> \/ HasNoSep(p1) \/ Basename(p1) = Dirname(p1)
      bin == whichSync(p1)
      p2 == IF lookup /\ Truthy(bin) THEN bin.s ELSE p1
  IN [path |-> p2,
      calls |-> (IF lookup THEN <<"which">> ELSE <<>>) \o <<"print(1234)">>,
      valid |-> isValidPythonPath(p2)]

\* getStdLibs(pythonPath): [sitePkgs, userPkgs]; [] when the first spawn's
\* stdout is null (the interpreter cannot be run) and .trim() throws.
getStdLibs(pythonPath) ==
  IF host.pythonRuns
    THEN [libs |-> <<pythonPath \o <<"site-packages">>, HomeDir \o <<".local", "site-packages">>>>,
          calls |-> <<"getsitepackages", "getusersitepackages">>]
    ELSE [libs |-> <<>>, calls |-> <<"getsitepackages">>]

\* A fresh PythonSettings object, before initialize().
NewSettings(root) ==
  [workspaceRoot |-> root,
   _pythonPath |-> <<>>, _stdLibs |-> <<>>,
   _configPythonPath |-> <<>>, _configStdLibs |-> <<>>,
   disposables |-> <<>>]

\* Mutant of SetPythonPath: the value is compared with the one supplied last.
SetPythonPathBySupplied(inst, value) ==
  IF lastUpdate.updates \in {"one", "many"} /\ lastUpdate.supplied = value
    THEN [inst |-> inst, calls |-> <<>>]
    ELSE LET exe == getPythonExecutable(value)
             libs == getStdLibs(exe.path)
         IN [inst |-> [inst EXCEPT !._pythonPath = exe.path, !._stdLibs = libs.libs],
             calls |-> exe.calls \o libs.calls]

\* set pythonPath(value)
SetPythonPath(inst, value) ==
  IF inst._pythonPath = value
    THEN [inst |-> inst, calls |-> <<>>]
    ELSE LET exe == getPythonExecutable(value)
             libs == getStdLibs(exe.path)
         IN [inst |-> [inst EXCEPT !._pythonPath = exe.path, !._stdLibs = libs.libs],
             calls |-> exe.calls \o libs.calls]

\* set configPythonPath(value)
SetConfigPythonPath(inst, value) ==
  IF inst._configPythonPath = value
    THEN [inst |-> inst, calls |-> <<>>]
    ELSE LET exe == getPythonExecutable(value)
             libs == getStdLibs(exe.path)
         IN [inst |-> [inst EXCEPT !._configPythonPath = exe.path, !._configStdLibs = libs.libs],
             calls |-> exe.calls \o libs.calls]

\* vp ? vp : systemVariables.resolve(pythonSettings.get('pythonPath'))
Supplied(r, cfg) == IF Truthy(r.value) THEN r.value.s ELSE cfg

\* this.configPythonPath = ...; a is what the pythonPath setter did.  `did`
\* records what this update did: the value given to the pythonPath setter,
\* the cached path and list before, the probe result, and the subprocesses
\* and lookups run.
AssignConfigPath(inst, cfg, pyenv, r, a) ==
  [inst |-> SetConfigPythonPath(a.inst, cfg).inst,
   pyenv |-> r.pyenv,
   did |-> [threw |-> FALSE,
            config |-> cfg,
            supplied |-> Supplied(r, cfg),
            prevPath |-> inst._pythonPath,
            prevLibs |-> inst._stdLibs,
            vp |-> r.value,
            probeThrew |-> r.threw,
            probeCalls |-> r.calls,
            pyenvBefore |-> pyenv,
            pathCalls |-> a.calls]]

\* this.pythonPath = vp ? vp : ...; r is what resolvePythonFromVENV() did.
AssignPaths(inst, cfg, pyenv, r) ==
  IF r.escaped
    THEN [inst |-> inst, pyenv |-> r.pyenv, did |-> [threw |-> TRUE]]
    ELSE AssignConfigPath(inst, cfg, pyenv, r, SetPythonPath(inst, Supplied(r, cfg)))

\* PythonSettings.update(pythonSettings), for the interpreter path.  cfg is
\* systemVariables.resolve(pythonSettings.get('pythonPath')).  The result is the
\* object afterwards, process.env.PYENV_VERSION afterwards, and what it did.
update(inst, cfg, pyenv) ==
  AssignPaths(inst, cfg, pyenv, resolvePythonFromVENV(inst.workspaceRoot, pyenv))

\* The last call ran no update().
NoUpdate == [updates |-> "none"]

\* No value on record.
Unrecorded == [k |-> "unrecorded"]

\* The record of a run of update() on object id: whether it was the object's
\* first (the constructor's), what it did, and the value the update before
\* supplied, when that update (prev) was of the same object.
Recorded(id, first, did, prev) ==
  IF did.threw THEN [updates |-> "threw", inst |-> id]
  ELSE [updates |-> IF first THEN "one" ELSE "many",
        inst |-> id,
        prevSupplied |-> IF first THEN Undefined
                         ELSE IF prev.updates \in {"one", "many"} /\ prev.inst = id
                           THEN Str(prev.supplied)
                         ELSE Unrecorded] @@ did

(***************************************************************************)
(* configSettings.ts: the registry of PythonSettings objects               *)
(***************************************************************************)
NoFolder == "(none)"
FolderNames == {"a"}

NoSettings == [k \in {} |-> 0]

\* The default of python.pythonPath.
DefaultPythonPath == <<"python">>

\* The host configuration values enumerated for python.pythonPath.
ConfigPaths ==
  { <<"python">>, UsrBinPython3, <<"~", "py">>, <<"python", "python">> }

\* The key getInstance() uses.
WorkspaceFolderKey == IF workspaceFolder = NoFolder THEN "unknown" ELSE workspaceFolder

\* new PythonSettings(), as the id-th object: the subscription is pushed by
\* initialize(); u is what update(initialConfig) did.
Constructor(id, u) ==
  /\ listeners' = Append(listeners, id)
  /\ instances' = Append(instances, u.inst)
  /\ procEnv' = [procEnv EXCEPT !.PYENV_VERSION = u.pyenv]
  /\ lastUpdate' = Recorded(id, TRUE, u.did, lastUpdate)
  /\ UNCHANGED <<ruffVars, platform, files, host, config, workspaceFolder>>

\* getInstance() for a new key: the object constructed is put in the map.
\* When the constructor throws, nothing is put in the map.
Construct(key, id, u) ==
  /\ Constructor(id, u)
  /\ IF u.did.threw
       THEN UNCHANGED <<pythonSettings, lastCall>>
       ELSE /\ pythonSettings' = [k \in DOMAIN pythonSettings \cup {key} |->
                                   IF k = key THEN id ELSE pythonSettings[k]]
            /\ lastCall' = [op |-> "getInstance", key |-> key, returned |-> id]

NewObject(id) == [NewSettings(WorkspaceRoot) EXCEPT !.disposables = <<id>>]

\* PythonSettings.getInstance(): for a new key, the constructor subscribes to
\* configuration changes (initialize) and runs update(initialConfig).
GetInstance ==
  IF WorkspaceFolderKey \in DOMAIN pythonSettings
    THEN /\ lastCall' = [op |-> "getInstance", key |-> WorkspaceFolderKey,
                         returned |-> pythonSettings[WorkspaceFolderKey]]
         /\ lastUpdate' = NoUpdate
         /\ UNCHANGED <<ruffVars, envVars, config, workspaceFolder, pythonSettings,
                        instances, listeners>>
    ELSE /\ Len(instances) < MaxInstances
         /\ Construct(WorkspaceFolderKey, Len(instances) + 1,
                      update(NewObject(Len(instances) + 1), config, procEnv.PYENV_VERSION))

\* new PythonSettings() called directly (the constructor is public): the
\* object subscribes and updates like any other, and no map entry is made.
NewPythonSettings ==
  /\ Len(instances) < MaxInstances
  /\ Constructor(Len(instances) + 1,
                 update(NewObject(Len(instances) + 1), config, procEnv.PYENV_VERSION))
  /\ lastCall' = [op |-> "new"]
  /\ UNCHANGED pythonSettings

Held == { pythonSettings[k] : k \in DOMAIN pythonSettings }

\* The objects constructed so far: a caller may hold a reference to any.
Constructed == 1..Len(instances)

\* The instance method dispose() called on an object: its subscriptions are
\* disposed and its disposables emptied; the map is left alone.
InstanceDispose ==
  \E i \in Constructed :
    /\ listeners' = SelectSeq(listeners,
         LAMBDA l : ~(\E d \in 1..Len(instances[i].disposables) :
                        instances[i].disposables[d] = l))
    /\ instances' = [instances EXCEPT ![i].disposables = <<>>]
    /\ lastCall' = [op |-> "instanceDispose"]
    /\ lastUpdate' = NoUpdate
    /\ UNCHANGED <<ruffVars, envVars, config, workspaceFolder, pythonSettings>>

\* `inst.pythonPath = v` from outside the class.
SetPythonPathCall ==
  \E i \in Constructed, v \in host.configChoices :
    /\ instances' = [instances EXCEPT ![i] = SetPythonPath(instances[i], v).inst]
    /\ lastCall' = [op |-> "setPythonPath"]
    /\ lastUpdate' = NoUpdate
    /\ UNCHANGED <<ruffVars, envVars, config, workspaceFolder, pythonSettings, listeners>>

\* `inst.configPythonPath = v` from outside the class.
SetConfigPythonPathCall ==
  \E i \in Constructed, v \in host.configChoices :
    /\ instances' = [instances EXCEPT ![i] = SetConfigPythonPath(instances[i], v).inst]
    /\ lastCall' = [op |-> "setConfigPythonPath"]
    /\ lastUpdate' = NoUpdate
    /\ UNCHANGED <<ruffVars, envVars, config, workspaceFolder, pythonSettings, listeners>>

\* Mutant of Dispose: the map is cleared, the objects are not disposed.
DisposeClearOnly ==
  /\ pythonSettings' = NoSettings
  /\ lastCall' = [op |-> "dispose"]
  /\ lastUpdate' = NoUpdate
  /\ UNCHANGED <<ruffVars, envVars, config, workspaceFolder, instances, listeners>>

\* static PythonSettings.dispose(): every object held disposes its
\* subscriptions (dispose()), then the map is cleared.
Dispose ==
  /\ listeners' = SelectSeq(listeners,
       LAMBDA l : ~(\E i \in Held : \E d \in 1..Len(instances[i].disposables) :
                      instances[i].disposables[d] = l))
  /\ instances' = [i \in 1..Len(instances) |->
                     IF i \in Held THEN [instances[i] EXCEPT !.disposables = <<>>]
                                   ELSE instances[i]]
  /\ pythonSettings' = NoSettings
  /\ lastCall' = [op |-> "dispose"]
  /\ lastUpdate' = NoUpdate
  /\ UNCHANGED <<ruffVars, envVars, config, workspaceFolder>>

\* The subscribed handlers run in subscription order; each runs update().
RECURSIVE RunHandlers(_, _, _, _, _)

\* After the handler of Head(ls) has run update() (u), the rest run.
RunRest(ls, insts, cfg, u, rec) ==
  RunHandlers(Tail(ls), [insts EXCEPT ![Head(ls)] = u.inst], u.pyenv, cfg,
              Recorded(Head(ls), FALSE, u.did, rec))

RunHandlers(ls, insts, pyenv, cfg, rec) ==
  IF ls = <<>> THEN [instances |-> insts, pyenv |-> pyenv, last |-> rec]
  ELSE RunRest(ls, insts, cfg, update(insts[Head(ls)], cfg, pyenv), rec)

\* What the handlers leave behind.
Handled(r) ==
  /\ instances' = r.instances
  /\ procEnv' = [procEnv EXCEPT !.PYENV_VERSION = r.pyenv]
  /\ lastUpdate' = r.last

\* The host changes its configuration and fires onDidChangeConfiguration;
\* affects is event.affectsConfiguration('python').
DidChangeConfiguration ==
  \E affects \in BOOLEAN, v \in host.configChoices :
    /\ config' = IF affects THEN v ELSE config
    /\ IF affects /\ listeners # <<>>
         THEN Handled(RunHandlers(listeners, instances, procEnv.PYENV_VERSION, v, lastUpdate))
         ELSE lastUpdate' = NoUpdate /\ UNCHANGED <<instances, procEnv>>
    /\ lastCall' = [op |-> "configChange"]
    /\ UNCHANGED <<ruffVars, platform, files, host, workspaceFolder, pythonSettings, listeners>>

\* The first workspace folder changes.
DidChangeWorkspaceFolders ==
  \E f \in FolderNames \cup {NoFolder} :
    /\ f # workspaceFolder
    /\ workspaceFolder' = f
    /\ lastCall' = [op |-> "folderChange"]
    /\ lastUpdate' = NoUpdate
    /\ UNCHANGED <<ruffVars, envVars, config, pythonSettings, instances, listeners>>

\* The state before any PythonSettings object exists.
NoInstances ==
  /\ pythonSettings = NoSettings
  /\ instances = <<>>
  /\ listeners = <<>>
  /\ lastCall = [op |-> "none"]
  /\ lastUpdate = NoUpdate

\* The settings side at rest (the ruff adapter is checked on its own).
IdleSettings ==
  /\ platform = "linux"
  /\ procEnv = [VIRTUAL_ENV |-> <<>>, CONDA_PREFIX |-> <<>>, PYENV_VERSION |-> <<>>]
  /\ files = {}
  /\ host = [readFileThrows |-> FALSE, pythonVersionText |-> <<>>,
             pipenvStdout |-> JsNull, poetryStdout |-> JsNull, poetryEnvs |-> <<>>,
             readdirThrows |-> FALSE,
             whichPython |-> JsNull, pythonRuns |-> FALSE, configChoices |-> {}]
  /\ config = <<"python">>
  /\ workspaceFolder = NoFolder
  /\ NoInstances

IdleRuff ==
  /\ output = <<>>
  /\ promise = [state |-> "idle"]
  /\ channel = <<>>

InitRuff ==
  /\ output \in RuffOutputs
  /\ promise = Pending
  /\ channel = <<>>
  /\ IdleSettings

\* The linter run hands the collected output to parseMessages.
ParseMessages ==
  /\ promise = Pending
  /\ LET r == parseMessages(output) IN
       /\ promise' = r.promise
       /\ channel' = channel \o r.log
  /\ UNCHANGED <<output, envVars, settingsVars>>

NextRuff == ParseMessages

SpecRuff == InitRuff /\ [][NextRuff]_vars

(***************************************************************************)
(* Claims about ruff.ts, checked under SpecRuff.                           *)
(***************************************************************************)
\* The text is "[" entry ("," entry)* "]" or "[" "]": a JSON array of ruff entries.
IsRuffArrayText(toks) ==
  /\ Len(toks) >= 2
  /\ toks[1] = LB
  /\ toks[Len(toks)] = RB
  /\ Len(toks) = 2 \/ Len(toks) % 2 = 1
  /\ \A i \in 2..(Len(toks) - 1) :
       IF i % 2 = 0 THEN toks[i].t = "object" /\ toks[i].v \in RuffEntries
                    ELSE toks[i] = Comma

\* The entries of such a text, in order.
EntriesOf(toks) == [i \in 1..((Len(toks) - 1) \div 2) |-> toks[2 * i].v]

Settled == promise.state # "pending"

\* C1: for a JSON array of well-formed ruff entries parseMessages returns one
\* message per entry, in order, with line = location.row, column =
\* location.column - 1, endLine = end_location.row, endColumn =
\* end_location.column.
C1_OneMessagePerEntry ==
  (Settled /\ IsRuffArrayText(output)) =>
    LET es == EntriesOf(output) IN
      /\ promise.state = "resolved"
      /\ Len(promise.value) = Len(es)
      /\ \A i \in 1..Len(es) :
           /\ promise.value[i].line = es[i].location.row
           /\ promise.value[i].column = es[i].location.column - 1
           /\ promise.value[i].endLine = es[i].end_location.row
           /\ promise.value[i].endColumn = es[i].end_location.column
           /\ promise.value[i].code = es[i].code
           /\ promise.value[i].file = es[i].filename

C1_Witness ==
  /\ Settled
  /\ IsRuffArrayText(output)
  /\ Len(EntriesOf(output)) = 2
  /\ EntriesOf(output)[1].location # EntriesOf(output)[2].location
  /\ Len(promise.value) = 2
  /\ promise.value[1].column = 0
  /\ promise.value[2].column = 7

\* C2: for a text that is not parseable as JSON parseMessages returns the empty
\* list and the promise is not rejected.
C2_FailsSoft ==
  (Settled /\ ~JSONParse(output).ok) => promise = Resolved(<<>>)

C2_Witness ==
  /\ Settled
  /\ output = <<Garbage>>
  /\ promise = Resolved(<<>>)
  /\ channel # <<>>

\* C6: an entry without fix data yields fix = null; an entry with fix data
\* yields exactly one replacement, for the entry's file, over the range
\* (row - 1, column) .. (end row - 1, end column), with fix.content as text.
C6_FixConversion ==
  (Settled /\ IsRuffArrayText(output)) =>
    LET es == EntriesOf(output) IN
      /\ promise.state = "resolved"
      /\ Len(promise.value) = Len(es)
      /\ \A i \in 1..Len(es) :
           LET e == es[i]
               f == promise.value[i].fix
           IN IF "fix" \notin DOMAIN e \/ e.fix = JsNull
                THEN f = NoEdit
                ELSE /\ f.k = "edit"
                     /\ DOMAIN f.changes = {UriToString(e.filename)}
                     /\ Len(f.changes[UriToString(e.filename)]) = 1
                     /\ LET edit == f.changes[UriToString(e.filename)][1] IN
                          /\ edit.newText = e.fix.content
                          /\ edit.range.start.line = e.fix.location.row - 1
                          /\ edit.range.start.character = e.fix.location.column
                          /\ edit.range.end.line = e.fix.end_location.row - 1
                          /\ edit.range.end.character = e.fix.end_location.column

C6_Witness ==
  /\ Settled
  /\ IsRuffArrayText(output)
  /\ Len(EntriesOf(output)) = 2
  /\ "fix" \notin DOMAIN EntriesOf(output)[1]
  /\ HasFix(EntriesOf(output)[2])
  /\ promise.value[1].fix = NoEdit
  /\ promise.value[2].fix.k = "edit"
  /\ promise.value[2].fix.changes[UriToString(EntriesOf(output)[2].filename)][1].range.start.line = 2

(***************************************************************************)
(* The environments enumerated for the resolver.                           *)
(***************************************************************************)
VenvCfg == VenvDir \o <<"pyvenv.cfg">>
VenvBinPython == VenvDir \o <<"bin", "python">>
VenvScriptsPython == VenvDir \o <<"Scripts", "python.exe">>

\* VIRTUAL_ENV and what exists under it.
VenvChoices ==
  { [dir |-> <<>>, files |-> {}] } \cup
  { [dir |-> VenvDir, files |-> fs] :
      fs \in { {}, {VenvCfg}, {VenvCfg, VenvBinPython}, {VenvCfg, VenvScriptsPython},
               {VenvCfg, VenvBinPython, VenvScriptsPython} } }

\* CONDA_PREFIX and whether its interpreter exists.
CondaChoices(plat) ==
  { [dir |-> <<>>, files |-> {}], [dir |-> CondaDir, files |-> {}],
    [dir |-> CondaDir, files |-> {CondaDir \o BinSegments(plat)}] }

PythonVersionFile == WorkspaceRoot \o <<".python-version">>

VersionTexts ==
  { <<TextWord("3.9"), NL>>,
    <<NL, TextWord("3.9"), NL, TextWord("3.8"), NL>> }

PresetPyenv == <<TextWord("3.7")>>

\* <root>/.python-version, its text, and PYENV_VERSION at start.
PyenvChoices ==
  { [files |-> {}, throws |-> FALSE, text |-> <<>>, preset |-> <<>>],
    [files |-> {PythonVersionFile}, throws |-> TRUE, text |-> <<>>, preset |-> <<>>] } \cup
  { [files |-> {PythonVersionFile}, throws |-> FALSE, text |-> t, preset |-> v] :
      t \in VersionTexts, v \in {<<>>, PresetPyenv} }

\* <root>/Pipfile and what `pipenv --py` prints (null: pipenv cannot be spawned).
PipenvChoices ==
  { [files |-> {}, stdout |-> JsNull],
    [files |-> {WorkspaceRoot \o <<"Pipfile">>}, stdout |-> JsNull],
    [files |-> {WorkspaceRoot \o <<"Pipfile">>}, stdout |-> Str(<<PathWord(PipenvPython), NL>>)] }

PoetryLock == WorkspaceRoot \o <<"poetry.lock">>

\* One environment poetry knows, and the line `poetry env list --full-path`
\* prints for it.
PoetryEnv(path, activated) == [path |-> path, activated |-> activated]

EnvLine(e) ==
  IF e.activated THEN <<PathWord(e.path), Space, Marker, NL>> ELSE <<PathWord(e.path), NL>>

RECURSIVE RenderEnvList(_)
RenderEnvList(envs) ==
  IF envs = <<>> THEN <<>> ELSE EnvLine(Head(envs)) \o RenderEnvList(Tail(envs))

\* <root>/poetry.lock and what `poetry env list` prints (null: poetry cannot
\* be spawned).
PoetryChoices(plat) ==
  { [files |-> {}, stdout |-> JsNull, envs |-> <<>>],
    [files |-> {PoetryLock}, stdout |-> JsNull, envs |-> <<>>],
    [files |-> {PoetryLock, PoetryEnvB \o BinSegments(plat)},
     stdout |-> Str(RenderEnvList(<<PoetryEnv(PoetryEnvA, FALSE), PoetryEnv(PoetryEnvB, TRUE)>>)),
     envs |-> <<PoetryEnv(PoetryEnvA, FALSE), PoetryEnv(PoetryEnvB, TRUE)>>] }

LocalVenvDir == WorkspaceRoot \o <<".venv">>

\* A virtualenv directory in the workspace root, and whether readdirSync throws.
LocalVenvChoices(plat) ==
  { [files |-> {}, throws |-> TRUE],
    [files |-> {}, throws |-> FALSE],
    [files |-> {LocalVenvDir \o <<"pyvenv.cfg">>, LocalVenvDir \o BinSegments(plat)},
     throws |-> FALSE] }

WhichChoices == {JsNull, Str(UsrBinPython3)}

\* One environment: the platform, process.env, the files and the host's answers.
Environment(plat, venv, conda, pyenv, pipenv, poetry, local, found, runs, choices) ==
  [platform |-> plat,
   procEnv |-> [VIRTUAL_ENV |-> venv.dir, CONDA_PREFIX |-> conda.dir,
                PYENV_VERSION |-> pyenv.preset],
   files |-> venv.files \cup conda.files \cup pyenv.files \cup pipenv.files
               \cup poetry.files \cup local.files,
   host |-> [readFileThrows |-> pyenv.throws, pythonVersionText |-> pyenv.text,
             pipenvStdout |-> pipenv.stdout, poetryStdout |-> poetry.stdout,
             poetryEnvs |-> poetry.envs,
             readdirThrows |-> local.throws, whichPython |-> found,
             pythonRuns |-> runs, configChoices |-> choices]]

SetEnvironment(e) ==
  /\ platform = e.platform
  /\ procEnv = e.procEnv
  /\ files = e.files
  /\ host = e.host

\* Resolver: every combination of the environments above.
ResolverEnvironments ==
  UNION { { Environment(plat, venv, conda, pyenv, pipenv, poetry, local, found, TRUE,
                        {DefaultPythonPath, <<"~", "py">>}) :
              venv \in VenvChoices, conda \in CondaChoices(plat), pyenv \in PyenvChoices,
              pipenv \in PipenvChoices, poetry \in PoetryChoices(plat),
              local \in LocalVenvChoices(plat), found \in WhichChoices } :
          plat \in {"linux", "win32"} }

InitResolver ==
  /\ IdleRuff
  /\ \E e \in ResolverEnvironments : SetEnvironment(e)
  /\ config = DefaultPythonPath
  /\ workspaceFolder = "a"
  /\ NoInstances

NextResolver == GetInstance \/ DidChangeConfiguration

Spec == InitResolver /\ [][NextResolver]_vars

(***************************************************************************)
(* Claims about the interpreter resolver, checked under Spec.              *)
(***************************************************************************)
\* The object update() ran on last, when it ran to its end.
Updated == IF lastUpdate.updates \in {"one", "many"} THEN {lastUpdate.inst} ELSE {}

\* The condition of the virtualenv probe.
VirtualenvMarked ==
  procEnv.VIRTUAL_ENV # <<>> /\ (procEnv.VIRTUAL_ENV \o <<"pyvenv.cfg">>) \in files

\* C3 as stated: whenever VIRTUAL_ENV is set and <VIRTUAL_ENV>/pyvenv.cfg and
\* <VIRTUAL_ENV>/bin/python exist, the resolved interpreter is
\* <VIRTUAL_ENV>/bin/python, whatever CONDA_PREFIX, the marker files and the
\* configured path are.
C3_AsStated ==
  \A i \in Updated :
    (VirtualenvMarked /\ (procEnv.VIRTUAL_ENV \o <<"bin", "python">>) \in files) =>
      /\ lastUpdate.vp = Str(procEnv.VIRTUAL_ENV \o <<"bin", "python">>)
      /\ instances[i]._pythonPath = procEnv.VIRTUAL_ENV \o <<"bin", "python">>

\* C3 (amended): the same on every platform but win32; on win32 the
\* interpreter looked for and resolved is <VIRTUAL_ENV>\Scripts\python.exe.
C3_VirtualenvFirst ==
  \A i \in Updated :
    /\ (platform # "win32" /\ VirtualenvMarked
          /\ (procEnv.VIRTUAL_ENV \o <<"bin", "python">>) \in files) =>
         /\ lastUpdate.vp = Str(procEnv.VIRTUAL_ENV \o <<"bin", "python">>)
         /\ instances[i]._pythonPath = procEnv.VIRTUAL_ENV \o <<"bin", "python">>
    /\ (platform = "win32" /\ VirtualenvMarked
          /\ (procEnv.VIRTUAL_ENV \o <<"Scripts", "python.exe">>) \in files) =>
         /\ lastUpdate.vp = Str(procEnv.VIRTUAL_ENV \o <<"Scripts", "python.exe">>)
         /\ instances[i]._pythonPath = procEnv.VIRTUAL_ENV \o <<"Scripts", "python.exe">>

C3_Witness ==
  /\ platform = "linux"
  /\ VirtualenvMarked
  /\ procEnv.CONDA_PREFIX = CondaDir
  /\ (CondaDir \o <<"bin", "python">>) \in files
  /\ {PythonVersionFile, WorkspaceRoot \o <<"Pipfile">>, PoetryLock,
      LocalVenvDir \o <<"pyvenv.cfg">>} \subseteq files
  /\ config = <<"~", "py">>
  /\ Len(instances) = 1
  /\ lastUpdate.updates = "many"
  /\ instances[1]._pythonPath = VenvBinPython

\* C7: when a file-system call or a subprocess throws in a probe, the
\* resolver catches it and yields no interpreter, no exception escapes
\* resolvePythonFromVENV or update, and the interpreter path after the update
\* is the one derived from the configured path.
C7_BestEffortProbing ==
  /\ lastUpdate.updates # "threw"
  /\ \A i \in Updated :
       lastUpdate.probeThrew =>
         /\ lastUpdate.vp = Undefined
         /\ lastUpdate.supplied = lastUpdate.config
         /\ instances[i]._pythonPath = getPythonExecutable(lastUpdate.config).path
         /\ lastCall.op \in {"getInstance", "configChange"}

C7_Witness ==
  /\ Len(instances) = 1
  /\ lastUpdate.updates = "many"
  /\ lastUpdate.probeThrew
  /\ lastUpdate.probeCalls = <<"pipenv">>
  /\ host.pipenvStdout = JsNull
  /\ (LocalVenvDir \o <<"pyvenv.cfg">>) \in files
  /\ lastUpdate.config = <<"python">>
  /\ instances[1]._pythonPath = UsrBinPython3

\* The .python-version probe is the one reached: neither the VIRTUAL_ENV nor
\* the CONDA_PREFIX probe is entered and <root>/.python-version exists.
PyenvReached ==
  /\ ~VirtualenvMarked
  /\ procEnv.CONDA_PREFIX = <<>>
  /\ PythonVersionFile \in files

\* The first line of a text, leading white space apart.
FirstTextLine(text) ==
  IF \A j \in 1..Len(text) : IsWhite(text[j]) THEN <<>>
  ELSE LET start == CHOOSE j \in 1..Len(text) :
                      ~IsWhite(text[j]) /\ \A h \in 1..(j - 1) : IsWhite(text[h])
           stop == CHOOSE j \in start..(Len(text) + 1) :
                     /\ j = Len(text) + 1 \/ text[j] = NL
                     /\ \A h \in start..(j - 1) : text[h] # NL
       IN SubSeq(text, start, stop - 1)

\* What the probes after .python-version would answer.
LaterProbes(root, pyenv) == Caught(ProbesFrom(4, root, pyenv, <<>>))

\* C9 as stated: the probe records the file's first line as PYENV_VERSION,
\* reports no interpreter itself, and resolution continues with the later
\* probes (Pipfile, poetry.lock, workspace virtualenv) before the fallback.
C9_AsStated ==
  \A i \in Updated :
    PyenvReached =>
      /\ procEnv.PYENV_VERSION = FirstTextLine(host.pythonVersionText)
      /\ lastUpdate.vp =
           LaterProbes(instances[i].workspaceRoot, procEnv.PYENV_VERSION).value
      /\ \E n \in 0..1 :
           SubSeq(lastUpdate.probeCalls, n + 1, Len(lastUpdate.probeCalls))
             = LaterProbes(instances[i].workspaceRoot, procEnv.PYENV_VERSION).calls

\* C9 (amended): the probe records the first line of the trimmed file as
\* PYENV_VERSION only when PYENV_VERSION is not set yet (and the file can be
\* read), and the resolver then returns no interpreter at once: no later
\* probe runs, and the interpreter is the one derived from the configured path.
C9_PyenvEndsTheChain ==
  \A i \in Updated :
    PyenvReached =>
      /\ procEnv.PYENV_VERSION =
           IF lastUpdate.pyenvBefore # <<>> THEN lastUpdate.pyenvBefore
           ELSE IF host.readFileThrows THEN <<>>
           ELSE FirstTextLine(host.pythonVersionText)
      /\ lastUpdate.vp = Undefined
      /\ \A c \in 1..Len(lastUpdate.probeCalls) :
           lastUpdate.probeCalls[c] = "readFile"
      /\ lastUpdate.supplied = lastUpdate.config
      /\ instances[i]._pythonPath = getPythonExecutable(lastUpdate.config).path

C9_Witness ==
  /\ PyenvReached
  /\ {WorkspaceRoot \o <<"Pipfile">>, PoetryLock, LocalVenvDir \o <<"pyvenv.cfg">>} \subseteq files
  /\ host.pipenvStdout # JsNull
  /\ host.pythonVersionText = <<NL, TextWord("3.9"), NL, TextWord("3.8"), NL>>
  /\ procEnv.PYENV_VERSION = <<TextWord("3.9")>>
  /\ Len(instances) = 1
  /\ lastUpdate.updates = "one"
  /\ lastUpdate.pyenvBefore = <<>>
  /\ lastUpdate.probeCalls = <<"readFile">>
  /\ instances[1]._pythonPath = UsrBinPython3

(***************************************************************************)
(* The configured-path fallback and the setters' cache: every configured   *)
(* path, with and without a search-path hit and a runnable interpreter.    *)
(***************************************************************************)
FallbackEnvironments ==
  UNION { { Environment(plat, venv, [dir |-> <<>>, files |-> {}], pyenv, pipenv,
                        [files |-> {}, stdout |-> JsNull, envs |-> <<>>],
                        local, found, runs, ConfigPaths) :
              venv \in { [dir |-> <<>>, files |-> {}],
                         [dir |-> VenvDir, files |-> {VenvCfg, VenvDir \o BinSegments(plat)}] },
              pyenv \in { q \in PyenvChoices : q.preset = <<>> /\ ~q.throws },
              pipenv \in { q \in PipenvChoices : q.files = {} \/ q.stdout # JsNull },
              local \in { q \in LocalVenvChoices(plat) : q.files = {} },
              found \in WhichChoices, runs \in BOOLEAN } :
          plat \in {"linux", "win32"} }

InitFallback ==
  /\ IdleRuff
  /\ \E e \in FallbackEnvironments : SetEnvironment(e)
  /\ config = DefaultPythonPath
  /\ workspaceFolder = "a"
  /\ NoInstances

SpecFallback == InitFallback /\ [][NextResolver]_vars

\* A bare command name: no path separator in it.
IsBareName(p) == Len(p) = 1 /\ p # <<"/">>

\* C5 as stated: when no probe yields an interpreter, the interpreter for the
\* configured path p is the search-path hit of p when p is a bare command name
\* that is found, and p itself otherwise, whether or not the validation
\* succeeds.
C5_AsStated ==
  \A i \in Updated :
    ~Truthy(lastUpdate.vp) =>
      LET p == lastUpdate.config IN
        instances[i]._pythonPath =
          IF IsBareName(p) /\ p = <<"python">> /\ host.whichPython # JsNull
            THEN host.whichPython.s ELSE p

\* C5 (amended): the same for p after its leading ~ is replaced by the home
\* directory.
C5_ConfiguredPathFallback ==
  \A i \in Updated :
    ~Truthy(lastUpdate.vp) =>
      LET p == lastUpdate.config
          q == IF p # <<>> /\ Head(p) = "~" THEN HomeDir \o Tail(p) ELSE p
      IN instances[i]._pythonPath =
           IF IsBareName(q) /\ q = <<"python">> /\ host.whichPython # JsNull
             THEN host.whichPython.s ELSE q

C5_Witness ==
  /\ ~host.pythonRuns
  /\ host.whichPython = Str(UsrBinPython3)
  /\ Len(instances) = 1
  /\ lastUpdate.updates = "one"
  /\ lastUpdate.vp = Undefined
  /\ lastUpdate.config = <<"python">>
  /\ lastUpdate.pathCalls = <<"which", "print(1234)", "getsitepackages">>
  /\ instances[1]._pythonPath = UsrBinPython3

\* C8 as stated: the interpreter path and its site-package list are
\* recomputed only when the value given to the update differs from the value
\* given by the update before; the same value again leaves both unchanged and
\* runs no lookup.
C8_AsStated ==
  \A i \in Updated :
    lastUpdate.updates = "many" =>
      LET l == lastUpdate IN
        /\ l.pathCalls # <<>> => Str(l.supplied) # l.prevSupplied
        /\ Str(l.supplied) = l.prevSupplied =>
             /\ l.pathCalls = <<>>
             /\ instances[i]._pythonPath = l.prevPath
             /\ instances[i]._stdLibs = l.prevLibs

\* C8 (amended): they are recomputed exactly when the value given differs
\* from the cached interpreter path (the result of the last lookup, not the
\* value given before); a value equal to the cached path leaves the path and
\* the list unchanged and runs no lookup.
C8_CacheComparesResolvedPath ==
  \A i \in Updated :
    LET l == lastUpdate IN
      /\ l.pathCalls = <<>> <=> l.supplied = l.prevPath
      /\ l.supplied = l.prevPath =>
           /\ instances[i]._pythonPath = l.prevPath
           /\ instances[i]._stdLibs = l.prevLibs
      /\ l.supplied # l.prevPath =>
           /\ instances[i]._pythonPath = getPythonExecutable(l.supplied).path
           /\ instances[i]._stdLibs = getStdLibs(instances[i]._pythonPath).libs

C8_Witness ==
  /\ Len(instances) = 1
  /\ lastUpdate.updates = "many"
  /\ lastUpdate.prevSupplied = Str(<<"python">>)
  /\ lastUpdate.supplied = UsrBinPython3
  /\ lastUpdate.prevPath = UsrBinPython3
  /\ lastUpdate.pathCalls = <<>>
  /\ instances[1]._pythonPath = UsrBinPython3
  /\ instances[1]._stdLibs # <<>>

(***************************************************************************)
(* The poetry probe: every `poetry env list` of up to MaxLines lines.      *)
(***************************************************************************)
PoetryEnvLines ==
  { PoetryEnv(d, a) : d \in {PoetryEnvA, PoetryEnvB}, a \in BOOLEAN }

PoetryProbeChoices(plat) ==
  { [files |-> {}, stdout |-> JsNull, envs |-> <<>>],
    [files |-> {PoetryLock}, stdout |-> JsNull, envs |-> <<>>] } \cup
  { [files |-> {PoetryLock} \cup bins, stdout |-> Str(RenderEnvList(envs)), envs |-> envs] :
      envs \in SeqsUpTo(PoetryEnvLines, MaxLines),
      bins \in SUBSET { PoetryEnvA \o BinSegments(plat), PoetryEnvB \o BinSegments(plat) } }

PoetryEnvironments ==
  UNION { { Environment(plat, [dir |-> <<>>, files |-> {}], [dir |-> <<>>, files |-> {}],
                        [files |-> {}, throws |-> FALSE, text |-> <<>>, preset |-> <<>>],
                        pipenv, poetry, local, Str(UsrBinPython3), TRUE,
                        {DefaultPythonPath, UsrBinPython3}) :
              pipenv \in { q \in PipenvChoices : q.files = {} \/ q.stdout # JsNull },
              poetry \in PoetryProbeChoices(plat),
              local \in { q \in LocalVenvChoices(plat) : ~q.throws } } :
          plat \in {"linux", "win32"} }

InitPoetry ==
  /\ IdleRuff
  /\ \E e \in PoetryEnvironments : SetEnvironment(e)
  /\ config = DefaultPythonPath
  /\ workspaceFolder = "a"
  /\ NoInstances

SpecPoetry == InitPoetry /\ [][NextResolver]_vars

\* The poetry probe is the one reached, and poetry listed something.
PoetryReached ==
  /\ ~VirtualenvMarked
  /\ procEnv.CONDA_PREFIX = <<>>
  /\ PythonVersionFile \notin files
  /\ (WorkspaceRoot \o <<"Pipfile">>) \notin files
  /\ PoetryLock \in files
  /\ host.poetryStdout # JsNull
  /\ host.poetryEnvs # <<>>

\* The environment the claim names: the first one marked (Activated), else
\* the last one listed.
ActivatedOrLast(envs) ==
  IF \E j \in 1..Len(envs) : envs[j].activated
    THEN envs[CHOOSE j \in 1..Len(envs) :
                envs[j].activated /\ \A h \in 1..(j - 1) : ~envs[h].activated].path
    ELSE envs[Len(envs)].path

\* The bin-path interpreter under a directory, when it exists.
BinPathInterpreter(dir) ==
  IF (dir \o (IF platform = "win32" THEN <<"Scripts", "python.exe">> ELSE <<"bin", "python">>))
       \in files
    THEN Str(dir \o (IF platform = "win32" THEN <<"Scripts", "python.exe">> ELSE <<"bin", "python">>))
    ELSE Undefined

\* C4: when no earlier probe matches and poetry.lock exists, the environment
\* used is the first line of `poetry env list` marked (Activated), without
\* the marker, else the last line; the probe answers the bin-path interpreter
\* under it, which is the resolved interpreter when it exists.
C4_PoetrySelection ==
  \A i \in Updated :
    PoetryReached =>
      /\ lastUpdate.probeCalls = <<"poetry">>
      /\ lastUpdate.vp = BinPathInterpreter(ActivatedOrLast(host.poetryEnvs))
      /\ lastUpdate.vp # Undefined =>
           instances[i]._pythonPath = lastUpdate.vp.s

C4_Witness ==
  /\ PoetryReached
  /\ host.poetryEnvs = <<PoetryEnv(PoetryEnvA, TRUE), PoetryEnv(PoetryEnvB, FALSE)>>
  /\ platform = "linux"
  /\ (PoetryEnvB \o <<"bin", "python">>) \in files
  /\ (LocalVenvDir \o <<"pyvenv.cfg">>) \in files
  /\ Len(instances) = 1
  /\ lastUpdate.updates = "one"
  /\ instances[1]._pythonPath = PoetryEnvA \o <<"bin", "python">>

\* Also reached: nothing marked, the last line is used.
C4_WitnessLast ==
  /\ PoetryReached
  /\ host.poetryEnvs = <<PoetryEnv(PoetryEnvB, FALSE), PoetryEnv(PoetryEnvA, FALSE)>>
  /\ Len(instances) = 1
  /\ instances[1]._pythonPath = PoetryEnvA \o BinSegments(platform)

(***************************************************************************)
(* The registry: getInstance() and dispose() in any order, while the first *)
(* workspace folder and the configuration change.                          *)
(***************************************************************************)
RegistryEnvironments ==
  { Environment("linux", [dir |-> <<>>, files |-> {}], [dir |-> <<>>, files |-> {}],
                [files |-> {}, throws |-> FALSE, text |-> <<>>, preset |-> <<>>],
                [files |-> {}, stdout |-> JsNull],
                [files |-> {}, stdout |-> JsNull, envs |-> <<>>],
                [files |-> {}, throws |-> FALSE], Str(UsrBinPython3), TRUE,
                {DefaultPythonPath, <<"~", "py">>}) }

InitRegistry ==
  /\ IdleRuff
  /\ \E e \in RegistryEnvironments : SetEnvironment(e)
  /\ config = DefaultPythonPath
  /\ workspaceFolder \in FolderNames \cup {NoFolder}
  /\ NoInstances

NextRegistry ==
  \/ GetInstance
  \/ NewPythonSettings
  \/ Dispose
  \/ InstanceDispose
  \/ SetPythonPathCall
  \/ SetConfigPythonPathCall
  \/ DidChangeConfiguration
  \/ DidChangeWorkspaceFolders

SpecRegistry == InitRegistry /\ [][NextRegistry]_vars

\* An object whose subscription has been disposed.
Disposed(i) == instances[i].disposables = <<>>

\* The live subscriptions are those of the objects not disposed, the registry
\* holds no object under two keys, getInstance() returned the object
\* registered under its key, and right after dispose() the registry is empty.
RegistryInvariant ==
  /\ \A l \in 1..Len(listeners) :
       listeners[l] \in 1..Len(instances) /\ ~Disposed(listeners[l])
  /\ \A i \in 1..Len(instances) :
       ~Disposed(i) => \E l \in 1..Len(listeners) : listeners[l] = i
  /\ \A k \in DOMAIN pythonSettings :
       /\ pythonSettings[k] \in 1..Len(instances)
       /\ \A h \in DOMAIN pythonSettings : pythonSettings[h] = pythonSettings[k] => h = k
  /\ lastCall.op = "getInstance" =>
       /\ lastCall.key \in DOMAIN pythonSettings
       /\ lastCall.returned = pythonSettings[lastCall.key]
  /\ lastCall.op = "dispose" => pythonSettings = NoSettings

\* Until the next dispose() a key keeps its object; dispose() disposes the
\* subscription of every object the registry held; a disposed object stays
\* disposed, and a configuration change updates no disposed object.
RegistryStep ==
  /\ lastCall'.op # "dispose" =>
       \A k \in DOMAIN pythonSettings :
         k \in DOMAIN pythonSettings' /\ pythonSettings'[k] = pythonSettings[k]
  /\ lastCall'.op = "dispose" =>
       \A i \in Held :
         /\ instances'[i].disposables = <<>>
         /\ \A l \in 1..Len(listeners') : listeners'[l] # i
  /\ \A i \in 1..Len(instances) :
       Disposed(i) =>
         /\ i <= Len(instances')
         /\ instances'[i].disposables = <<>>
         /\ lastCall'.op = "configChange" => instances'[i] = instances[i]

\* C10: the registry holds at most one object per workspace-folder key;
\* getInstance() returns the same object for a key until the next dispose();
\* right after dispose() the registry is empty and the subscription of every
\* object it held is disposed, so that a later configuration change updates
\* no disposed object.
C10_RegistryLifecycle == []RegistryInvariant /\ [][RegistryStep]_vars

C10_Witness ==
  /\ lastCall.op = "configChange"
  /\ Len(instances) = 2
  /\ pythonSettings = NoSettings
  /\ Disposed(1)
  /\ listeners = <<2>>
  /\ instances[1]._configPythonPath = UsrBinPython3
  /\ instances[2]._configPythonPath = HomeDir \o <<"py">>
  /\ lastUpdate.inst = 2
  /\ lastUpdate.updates = "many"
  /\ lastUpdate.config = config

====
